---- MODULE Spec2Model ----
(***************************************************************************)
(* Presence / stats subsystem of the Radio Africa backend (src/main.py):   *)
(* POST /api/heartbeat (heartbeat) and GET /api/stats (get_stats) over the *)
(* two store collections "session" and "sitestat".                        *)
(*                                                                         *)
(* Every store call of a handler is one atomic step; the handler's local   *)
(* computation is folded into the step of the store call that follows it.  *)
(* Requests run in a pool of one-shot slots, so any number of them (up to  *)
(* the bounds) may overlap.                                                *)
(***************************************************************************)
EXTENDS Integers, FiniteSets, Sequences, TLC

\* ---------------------------------------------------------------- bounds
MaxHb     == 2      \* heartbeat requests in one behaviour
MaxTime   == 1      \* the clock runs over 0..MaxTime
MaxExtra  == 1      \* over-count already in the counter when a sequential run starts

Hb      == 1..MaxHb

\* request bodies: a body without visitor_id, and bodies carrying a string
Missing  == "<missing>"
Visitors == {"", "a"}
Payloads == Visitors \cup {Missing}

\* the window_seconds query parameter, in time units
Windows == {0, 1}

VARIABLES
    clock,      \* datetime.now(timezone.utc), in whole time units
    session,    \* db["session"]: a set of documents
    sitestat,   \* db["sitestat"]: a set of documents
    hb,         \* heartbeat requests: pc and the locals payload, now, vid, prev
    st,         \* the stats request: pc and the locals now, since, active, total
    store0,     \* history: the store as it was at the start of the behaviour
    obs         \* history: when each heartbeat returned, and which heartbeats
                \* had returned when the stats request started

vars == <<clock, session, sitestat, hb, st, store0, obs>>

\* ------------------------------------------------------------ the store
\* A collection is a set of documents; a document is a record with an id.
\* Every call on a collection is one atomic step.

\* an equality filter {field: value, ...}
Matches(d, filter) ==
    \A f \in DOMAIN filter : f \in DOMAIN d /\ d[f] = filter[f]

\* find_one(filter): the set holding one matching document, {} for None
FindOne(coll, filter) ==
    LET found == {d \in coll : Matches(d, filter)}
    IN  IF found = {} THEN {} ELSE {CHOOSE d \in found : TRUE}

\* the update operators "$set" and "$inc" applied to a document
ApplyUpdate(d, set, inc) ==
    [f \in DOMAIN d \cup DOMAIN set \cup DOMAIN inc |->
        IF f \in DOMAIN set THEN set[f]
        ELSE IF f \in DOMAIN inc
             THEN (IF f \in DOMAIN d THEN d[f] ELSE 0) + inc[f]
             ELSE d[f]]

\* the _id the store gives a newly inserted document
NewId(coll) == Cardinality(coll) + 1

\* update_one(filter, {"$set", "$inc", "$setOnInsert"}, upsert=True): one
\* matching document is updated; only when none matches, a document made of
\* the filter's fields and "$setOnInsert" is inserted with the update applied
UpdateOneUpsert(coll, filter, set, inc, setOnInsert) ==
    LET found == FindOne(coll, filter)
    IN  IF found # {}
        THEN (coll \ found) \cup {ApplyUpdate(d, set, inc) : d \in found}
        ELSE coll \cup {ApplyUpdate([id |-> NewId(coll)] @@ filter @@ setOnInsert,
                                    set, inc)}

\* count_documents(filter), given the documents the filter selects
CountDocuments(selected) == Cardinality(selected)

\* no "$inc" (or no "$set") in an update
NoFields == <<>>

\* ------------------------------------------------------------ heartbeat
\* HeartbeatIn: visitor_id is a required str; any string passes, "" included
ValidHeartbeatIn(p) == p # Missing

\* insert_one in place of the upsert: every heartbeat adds a document
UpsertSessionInsertOnly(coll, v, t) ==
    coll \cup {[id |-> NewId(coll), visitor_id |-> v, last_seen |-> t, created_at |-> t]}

\* created_at moved from "$setOnInsert" into "$set"
UpsertSessionSetCreated(coll, v, t) ==
    UpdateOneUpsert(coll, [visitor_id |-> v],
                    [visitor_id |-> v, last_seen |-> t, created_at |-> t], NoFields,
                    NoFields)

\* the filter left empty: any document matches
UpsertSessionNoFilter(coll, v, t) ==
    UpdateOneUpsert(coll, NoFields,
                    [visitor_id |-> v, last_seen |-> t], NoFields,
                    [created_at |-> t])

\* db["session"].update_one({"visitor_id": vid},
\*     {"$set": {"visitor_id": vid, "last_seen": now},
\*      "$setOnInsert": {"created_at": now}}, upsert=True)
UpsertSession(coll, v, t) ==
    UpdateOneUpsert(coll, [visitor_id |-> v],
                    [visitor_id |-> v, last_seen |-> t], NoFields,
                    [created_at |-> t])

\* "$set": {"total_views": 1} in place of "$inc"
IncTotalViewsSet(coll, t) ==
    UpdateOneUpsert(coll, [key |-> "global"],
                    [total_views |-> 1], NoFields,
                    [key |-> "global", created_at |-> t])

\* the update without upsert=True: nothing is written while no counter exists
IncTotalViewsNoUpsert(coll, t) ==
    {ApplyUpdate(d, NoFields, [total_views |-> 1]) : d \in FindOne(coll, [key |-> "global"])}
        \cup (coll \ FindOne(coll, [key |-> "global"]))

\* "$inc": {"total_views": -1}
IncTotalViewsDown(coll, t) ==
    UpdateOneUpsert(coll, [key |-> "global"],
                    NoFields, [total_views |-> -1],
                    [key |-> "global", created_at |-> t])

\* insert_one in place of the upsert: every increment adds a counter document
IncTotalViewsInsertOnly(coll, t) ==
    coll \cup {[id |-> NewId(coll), key |-> "global", total_views |-> 1, created_at |-> t]}

\* db["sitestat"].update_one({"key": "global"},
\*     {"$inc": {"total_views": 1},
\*      "$setOnInsert": {"key": "global", "created_at": now}}, upsert=True)
IncTotalViews(coll, t) ==
    UpdateOneUpsert(coll, [key |-> "global"],
                    NoFields, [total_views |-> 1],
                    [key |-> "global", created_at |-> t])

\* the test is dropped: every heartbeat counts as a first one
IsFirstSeenAlways(prev) == TRUE

\* the test inverted: if prev is not None
IsFirstSeenInverted(prev) == prev # {}

\* if prev is None
IsFirstSeen(prev) == prev = {}

HbIdle == [pc |-> "idle", payload |-> Missing, now |-> 0, vid |-> "", prev |-> {}]

\* slots are taken in order: the requests are interchangeable
HbFree(h) == hb[h].pc = "idle" /\ \A k \in Hb : k < h => hb[k].pc # "idle"

\* a body that fails HeartbeatIn's validation: 422, the handler never runs
HbReject(h) ==
    /\ HbFree(h)
    /\ \E p \in Payloads :
        /\ ~ValidHeartbeatIn(p)
        /\ hb' = [hb EXCEPT ![h] = [@ EXCEPT !.pc = "rejected", !.payload = p]]
    /\ UNCHANGED <<clock, session, sitestat, st>>

\* now = datetime.now(timezone.utc); vid = payload.visitor_id
HbStart(h) ==
    /\ HbFree(h)
    /\ \E p \in Payloads :
        /\ ValidHeartbeatIn(p)
        /\ hb' = [hb EXCEPT ![h] = [@ EXCEPT !.pc = "find", !.payload = p,
                                             !.now = clock, !.vid = p]]
    /\ UNCHANGED <<clock, session, sitestat, st>>

\* prev = db["session"].find_one({"visitor_id": vid})
HbFind(h) ==
    /\ hb[h].pc = "find"
    /\ hb' = [hb EXCEPT ![h] = [@ EXCEPT !.pc = "upsert",
                 !.prev = FindOne(session, [visitor_id |-> hb[h].vid])]]
    /\ UNCHANGED <<clock, session, sitestat, st>>

\* db["session"].update_one(..., upsert=True)
HbUpsert(h) ==
    /\ hb[h].pc = "upsert"
    /\ session' = UpsertSession(session, hb[h].vid, hb[h].now)
    /\ hb' = [hb EXCEPT ![h] = [@ EXCEPT !.pc = "check"]]
    /\ UNCHANGED <<clock, sitestat, st>>

\* if prev is None: db["sitestat"].update_one(...); return {"ok": True}
HbInc(h) ==
    /\ hb[h].pc = "check"
    /\ IsFirstSeen(hb[h].prev)
    /\ sitestat' = IncTotalViews(sitestat, hb[h].now)
    /\ hb' = [hb EXCEPT ![h] = [@ EXCEPT !.pc = "done"]]
    /\ UNCHANGED <<clock, session, st>>

\* prev is not None: return {"ok": True}
HbReturn(h) ==
    /\ hb[h].pc = "check"
    /\ ~IsFirstSeen(hb[h].prev)
    /\ hb' = [hb EXCEPT ![h] = [@ EXCEPT !.pc = "done"]]
    /\ UNCHANGED <<clock, session, sitestat, st>>

\* ------------------------------------------------------------ get_stats
\* get_stats only reads the store, so overlapping stats requests do not affect
\* one another: one request at a time is modelled, and the next one may start
\* once the last one has returned
StIdle == [pc |-> "idle", window |-> 0, now |-> 0, since |-> 0,
           active |-> 0, total |-> 0, status |-> "none"]

\* the window added instead of subtracted
SinceAhead(now, w) == now + w

\* since = now - timedelta(seconds=window_seconds)
Since(now, w) == now - w

\* now = datetime.now(timezone.utc); since = ...
StStart ==
    /\ st.pc \in {"idle", "done"}
    /\ \E w \in Windows :
        st' = [StIdle EXCEPT !.pc = "count", !.window = w,
                             !.now = clock, !.since = Since(clock, w)]
    /\ UNCHANGED <<clock, session, sitestat, hb>>

\* "$gt" in place of "$gte"
ActiveStrict(d, since) == d.last_seen > since

\* the filter {"last_seen": {"$gte": since}}
Active(d, since) == d.last_seen >= since

\* active = db["session"].count_documents({"last_seen": {"$gte": since}})
StCount ==
    /\ st.pc = "count"
    /\ st' = [st EXCEPT !.pc = "read",
                 !.active = CountDocuments({d \in session : Active(d, st.since)})]
    /\ UNCHANGED <<clock, session, sitestat, hb>>

\* the "or" default dropped: stat stays None when no counter exists
StatNoDefault(found) == found

\* stat = db["sitestat"].find_one({"key": "global"}) or {"total_views": 0}
StatOrDefault(found) ==
    IF found = {} THEN {[total_views |-> 0]} ELSE found

\* the read made an upsert: a missing counter document is created
StReadCreating ==
    /\ st.pc = "read"
    /\ LET found == FindOne(sitestat, [key |-> "global"])
       IN  /\ st' = [st EXCEPT !.pc = "done", !.status = "ok",
                               !.total = IF found = {} THEN 0
                                         ELSE (CHOOSE s \in found : TRUE).total_views]
           /\ sitestat' = IF found = {}
                          THEN sitestat \cup {[id |-> NewId(sitestat), key |-> "global",
                                               total_views |-> 0, created_at |-> st.now]}
                          ELSE sitestat
    /\ UNCHANGED <<clock, session, hb>>

\* total = int(stat.get("total_views", 0)); return {"active": active, "total": total}
\* (stat.get on None raises: the request ends in a server error)
StRead ==
    /\ st.pc = "read"
    /\ LET stat == StatOrDefault(FindOne(sitestat, [key |-> "global"]))
       IN  st' = IF stat = {}
                 THEN [st EXCEPT !.pc = "done", !.status = "error"]
                 ELSE [st EXCEPT !.pc = "done", !.status = "ok",
                                 !.total = (CHOOSE s \in stat : TRUE).total_views]
    /\ UNCHANGED <<clock, session, sitestat, hb>>

\* ---------------------------------------------------------------- clock
Tick ==
    /\ clock < MaxTime
    /\ clock' = clock + 1
    /\ UNCHANGED <<session, sitestat, hb, st>>

\* ----------------------------------------------------------------- spec
EmptyStore == [session |-> {}, sitestat |-> {}]

NoObs == [ended |-> [h \in Hb |-> -1], before |-> {}]

Init ==
    /\ clock = 0
    /\ session = {}
    /\ sitestat = {}
    /\ hb = [h \in Hb |-> HbIdle]
    /\ st = StIdle
    /\ store0 = EmptyStore
    /\ obs = NoObs

\* the program's steps; requests overlap freely
Next ==
    \/ Tick /\ UNCHANGED <<store0, obs>>
    \/ \E h \in Hb : HbReject(h) /\ UNCHANGED <<store0, obs>>
    \/ \E h \in Hb : HbStart(h) /\ UNCHANGED <<store0, obs>>
    \/ \E h \in Hb : HbFind(h) /\ UNCHANGED <<store0, obs>>
    \/ \E h \in Hb : HbUpsert(h) /\ UNCHANGED <<store0, obs>>
    \/ \E h \in Hb : HbInc(h) /\ UNCHANGED <<store0, obs>>
    \/ \E h \in Hb : HbReturn(h) /\ UNCHANGED <<store0, obs>>
    \/ StStart /\ UNCHANGED <<store0, obs>>
    \/ StCount /\ UNCHANGED <<store0, obs>>
    \/ StRead /\ UNCHANGED <<store0, obs>>

Spec == Init /\ [][Next]_vars

\* ------------------------------------------------------------ vocabulary
InFlight(h) == hb[h].pc \in {"find", "upsert", "check"}
Returned(h) == hb[h].pc = "done"
Called(h)   == hb[h].pc \notin {"idle", "rejected"}

\* no heartbeat is between its entry and its return
Quiescent == \A h \in Hb : ~InFlight(h)

SessionsOf(v)   == {d \in session : d.visitor_id = v}
SessionVisitors == {d.visitor_id : d \in session}
Counters        == {d \in sitestat : d.key = "global"}

\* total_views, an absent counter document read as 0
TotalViews ==
    IF Counters = {} THEN 0 ELSE (CHOOSE d \in Counters : TRUE).total_views

\* ------------------------------------------------- sequential heartbeats
\* The stores a run of non-overlapping heartbeats may start from: the
\* quiescent stores earlier (possibly overlapping) heartbeats can leave. Every
\* visitor with a Session has been counted at least once, and racing first
\* heartbeats may have counted some more than once.
QuiescentStores ==
    {[session |-> ss, sitestat |-> cs] :
        ss \in {x \in SUBSET [id : 1..Cardinality(Visitors), visitor_id : Visitors,
                              last_seen : {0}, created_at : {0}] :
                  /\ {d.id : d \in x} = 1..Cardinality(x)
                  /\ Cardinality({d.visitor_id : d \in x}) = Cardinality(x)},
        cs \in SUBSET [id : {1}, key : {"global"},
                       total_views : 1..(Cardinality(Visitors) + MaxExtra),
                       created_at : {0}]}

SeqInit ==
    /\ clock = 0
    /\ hb = [h \in Hb |-> HbIdle]
    /\ st = StIdle
    /\ obs = NoObs
    /\ store0 \in QuiescentStores
    /\ Cardinality(store0.sitestat) <= 1
    /\ store0.session = {} <=> store0.sitestat = {}
    /\ \A c \in store0.sitestat :
          /\ c.total_views >= Cardinality(store0.session)
          /\ c.total_views <= Cardinality(store0.session) + MaxExtra
    /\ session = store0.session
    /\ sitestat = store0.sitestat

\* a heartbeat enters only when none is in flight
SeqNext ==
    \/ Tick /\ UNCHANGED <<store0, obs>>
    \/ \E h \in Hb : HbReject(h) /\ UNCHANGED <<store0, obs>>
    \/ \E h \in Hb : Quiescent /\ HbStart(h) /\ UNCHANGED <<store0, obs>>
    \/ \E h \in Hb : HbFind(h) /\ UNCHANGED <<store0, obs>>
    \/ \E h \in Hb : HbUpsert(h) /\ UNCHANGED <<store0, obs>>
    \/ \E h \in Hb : HbInc(h) /\ UNCHANGED <<store0, obs>>
    \/ \E h \in Hb : HbReturn(h) /\ UNCHANGED <<store0, obs>>
    \/ StStart /\ UNCHANGED <<store0, obs>>
    \/ StCount /\ UNCHANGED <<store0, obs>>
    \/ StRead /\ UNCHANGED <<store0, obs>>

SeqSpec == SeqInit /\ [][SeqNext]_vars

\* ------------------------------------------------------ timed observation
\* The program's steps, with the history kept: the clock reading at which each
\* heartbeat returned, and the heartbeats that had returned when the stats
\* request started.
Observe ==
    obs' = [ended  |-> [h \in Hb |->
                          IF hb[h].pc # "done" /\ hb'[h].pc = "done"
                          THEN clock ELSE obs.ended[h]],
            before |-> IF st.pc # "count" /\ st'.pc = "count"
                       THEN {h \in Hb : hb[h].pc = "done"} ELSE obs.before]

TimedNext ==
    \/ Tick /\ Observe /\ UNCHANGED store0
    \/ \E h \in Hb : HbReject(h) /\ Observe /\ UNCHANGED store0
    \/ \E h \in Hb : HbStart(h) /\ Observe /\ UNCHANGED store0
    \/ \E h \in Hb : HbFind(h) /\ Observe /\ UNCHANGED store0
    \/ \E h \in Hb : HbUpsert(h) /\ Observe /\ UNCHANGED store0
    \/ \E h \in Hb : HbInc(h) /\ Observe /\ UNCHANGED store0
    \/ \E h \in Hb : HbReturn(h) /\ Observe /\ UNCHANGED store0
    \/ StStart /\ Observe /\ UNCHANGED store0
    \/ StCount /\ Observe /\ UNCHANGED store0
    \/ StRead /\ Observe /\ UNCHANGED store0

TimedSpec == Init /\ [][TimedNext]_vars

\* ----------------------------------------------------------------- C1
\* C1 (as claimed): whenever no heartbeat is in flight, total_views equals the
\* number of distinct visitor_ids that have a Session record, whatever the
\* interleaving of the heartbeats was.
C1_ExactlyOnce ==
    Quiescent => TotalViews = Cardinality(SessionVisitors)

\* ----------------------------------------------------------------- C2
\* C2 (under SeqSpec): after any number N >= 1 of non-overlapping heartbeats
\* for a visitor_id that had no Session when the run started, exactly one
\* Session record exists for it and total_views has grown by exactly 1 for it:
\* in every quiescent state total_views is its starting value plus the number
\* of such visitor_ids.
Total0 ==
    IF store0.sitestat = {} THEN 0
    ELSE (CHOOSE d \in store0.sitestat : TRUE).total_views

NewlySeen ==
    {v \in Visitors :
        /\ \A d \in store0.session : d.visitor_id # v
        /\ \E h \in Hb : Returned(h) /\ hb[h].vid = v}

C2_SequentialOnce ==
    Quiescent =>
        /\ \A v \in NewlySeen : Cardinality(SessionsOf(v)) = 1
        /\ TotalViews = Total0 + Cardinality(NewlySeen)

\* two heartbeats in a row for one new visitor, from a store whose counter
\* was already ahead of its sessions
C2_Witness ==
    /\ Quiescent
    /\ \E g, h \in Hb : g # h /\ Returned(g) /\ Returned(h) /\ hb[g].vid = hb[h].vid
                         /\ hb[h].vid \in NewlySeen
    /\ Total0 > Cardinality(store0.session)
    /\ TotalViews = Total0 + 1

\* ----------------------------------------------------------------- C3
\* C3: once one heartbeat for each of k pairwise distinct visitor_ids has
\* returned, whatever their interleaving, and none is in flight, exactly k
\* Session records exist and total_views = k.
PairwiseDistinct ==
    \A g, h \in Hb : (Called(g) /\ Called(h) /\ g # h) => hb[g].vid # hb[h].vid

C3_DistinctVisitors ==
    (Quiescent /\ PairwiseDistinct) =>
        LET k == Cardinality({h \in Hb : Returned(h)})
        IN  Cardinality(session) = k /\ TotalViews = k

C3_Witness ==
    /\ Quiescent /\ PairwiseDistinct
    /\ Cardinality({h \in Hb : Returned(h)}) >= 2
    /\ Cardinality(session) = Cardinality({h \in Hb : Returned(h)})
    /\ TotalViews = Cardinality(session)

\* ----------------------------------------------------------------- C4
\* C4: in every reachable state there is at most one Session record per
\* visitor_id, and exactly one for every visitor_id for which some heartbeat
\* has performed its upsert.
Upserted(h) == hb[h].pc \in {"check", "done"}

C4_OneSessionPerVisitor ==
    \A v \in Visitors :
        /\ Cardinality(SessionsOf(v)) <= 1
        /\ (\E h \in Hb : Upserted(h) /\ hb[h].vid = v) => Cardinality(SessionsOf(v)) = 1

\* two first heartbeats of one visitor, both past the lookup that found
\* nothing, both past the upsert
C4_Witness ==
    \E g, h \in Hb :
        /\ g # h /\ hb[g].vid = hb[h].vid
        /\ Upserted(g) /\ Upserted(h)
        /\ hb[g].prev = {} /\ hb[h].prev = {}
        /\ Cardinality(SessionsOf(hb[h].vid)) = 1

\* ----------------------------------------------------------------- C5
\* C5: when two heartbeats for the same visitor_id have both looked up before
\* either upserted (both found no record) and have both returned, there is
\* exactly one Session record for that visitor_id and both have incremented
\* the counter: total_views >= 2, and = 2 when no other heartbeat was made.
C5_RaceCountsTwice ==
    \A g, h \in Hb :
        (/\ g # h /\ hb[g].vid = hb[h].vid
         /\ Returned(g) /\ Returned(h)
         /\ hb[g].prev = {} /\ hb[h].prev = {})
        => /\ Cardinality(SessionsOf(hb[h].vid)) = 1
           /\ TotalViews >= 2
           /\ (\A k \in Hb \ {g, h} : ~Called(k)) => TotalViews = 2

\* the execution the claim says exists, at its end
C5_Witness ==
    \E g, h \in Hb :
        /\ g # h /\ hb[g].vid = hb[h].vid
        /\ Returned(g) /\ Returned(h)
        /\ hb[g].prev = {} /\ hb[h].prev = {}
        /\ \A k \in Hb \ {g, h} : ~Called(k)
        /\ Cardinality(session) = 1
        /\ TotalViews = 2

\* ----------------------------------------------------------------- C6
\* C6 (as claimed): a heartbeat whose visitor_id is the empty string is
\* rejected, and no Session record is ever made for the empty visitor_id.
C6_EmptyRejected ==
    /\ \A h \in Hb : (hb[h].pc # "idle" /\ hb[h].payload = "") => hb[h].pc = "rejected"
    /\ SessionsOf("") = {}

\* ----------------------------------------------------------------- C7
\* C7: the step of get_stats that counts sets active to the number of Session
\* records whose last_seen is at least now - window, so a record with
\* last_seen = now - window is counted and one with now - window - 1 is not.
C7_ActiveIsWindowCount ==
    [][(st.pc = "count" /\ st'.pc = "read") =>
          st'.active = Cardinality({d \in session : d.last_seen >= st.now - st.window})]_vars

\* one record exactly on the boundary and one a time unit older: 1 is counted
C7_Witness ==
    /\ st.pc = "read" /\ Quiescent
    /\ Cardinality(session) = 2
    /\ \E d \in session : d.last_seen = st.now - st.window
    /\ \E d \in session : d.last_seen = st.now - st.window - 1
    /\ st.active = 1

\* ----------------------------------------------------------------- C8
\* C8: a stats request that has returned while no counter document exists has
\* succeeded with total = 0, and with active = 0 too when there is no Session
\* record either.
C8_ColdStart ==
    (st.pc = "done" /\ Counters = {}) =>
        /\ st.status = "ok" /\ st.total = 0
        /\ session = {} => st.active = 0

C8_Witness ==
    /\ st.pc = "done" /\ session = {} /\ sitestat = {}
    /\ st.status = "ok" /\ st.active = 0 /\ st.total = 0

\* ----------------------------------------------------------------- C9
\* C9: no step of any execution lowers total_views (an absent counter
\* document read as 0).
C9_TotalMonotone == [][TotalViews' >= TotalViews]_vars

\* the counter has been incremented more than once
C9_Witness == TotalViews >= 2

\* ---------------------------------------------------------------- C10
\* The stats request has returned, exactly one heartbeat h had returned when it
\* started, and no other heartbeat has been made.
OnlyHeartbeatBefore(h) ==
    /\ st.pc = "done"
    /\ obs.before = {h}
    /\ \A k \in Hb \ {h} : ~Called(k)

\* C10 (as claimed, under TimedSpec): with t the time at which the only
\* heartbeat completed and t' the time of the stats request, the response is
\* {active: 1, total: 1} when t' - t <= window and {active: 0, total: 1}
\* otherwise.
C10_FromCompletionTime ==
    \A h \in Hb : OnlyHeartbeatBefore(h) =>
        /\ st.status = "ok" /\ st.total = 1
        /\ st.active = IF st.now - obs.ended[h] <= st.window THEN 1 ELSE 0

\* C10 (amended, under TimedSpec): the same with t the timestamp the heartbeat
\* took on entry, which is the last_seen it wrote.
C10_FromTimestamp ==
    \A h \in Hb : OnlyHeartbeatBefore(h) =>
        /\ st.status = "ok" /\ st.total = 1
        /\ st.active = IF st.now - hb[h].now <= st.window THEN 1 ELSE 0

\* the visitor has fallen out of the window: active 0, total still 1
C10_Witness ==
    \E h \in Hb :
        /\ OnlyHeartbeatBefore(h)
        /\ st.now - hb[h].now > st.window
        /\ st.active = 0 /\ st.total = 1

\* ---------------------------------------------------------------- C11
\* C11: no step of get_stats changes the session collection or the sitestat
\* collection (an absent counter document stays absent).
C11_StatsReadOnly ==
    [][(st' # st) => (session' = session /\ sitestat' = sitestat)]_vars

\* a stats request has returned while a heartbeat is in flight and both
\* collections hold documents
C11_Witness ==
    /\ st.pc = "done"
    /\ session # {} /\ sitestat # {}
    /\ \E h \in Hb : InFlight(h)

\* ---------------------------------------------------------------- C12
\* C12: no step changes the created_at (or the id, or the visitor_id) of a
\* Session record that exists, and a record that is inserted gets the
\* inserting heartbeat's timestamp as created_at and as last_seen.
C12_CreatedAtSetOnce ==
    [][/\ \A d \in session : \E e \in session' :
             e.id = d.id /\ e.visitor_id = d.visitor_id /\ e.created_at = d.created_at
       /\ \A e \in session' :
             (\A d \in session : d.id # e.id) =>
                 (e.last_seen = e.created_at
                  /\ \E h \in Hb : hb[h].pc = "upsert" /\ hb'[h].pc = "check"
                                    /\ e.visitor_id = hb[h].vid /\ e.created_at = hb[h].now)]_vars

\* a later heartbeat has moved last_seen and left created_at
C12_Witness ==
    \E d \in session : d.last_seen > d.created_at

\* ---------------------------------------------------------------- C13
MaxOf(S) == CHOOSE x \in S : \A y \in S : y <= x

\* the timestamps taken by the heartbeats for v that have returned
ReturnedStamps(v) == {hb[h].now : h \in {k \in Hb : Returned(k) /\ hb[k].vid = v}}

\* C13 (as claimed): whenever no heartbeat for a visitor_id is in flight and
\* some heartbeat for it has returned, its Session's last_seen is the greatest
\* timestamp taken by a returned heartbeat for it.
C13_LastSeenIsLatest ==
    \A v \in Visitors :
        ((\A h \in Hb : InFlight(h) => hb[h].vid # v) /\ ReturnedStamps(v) # {}) =>
            \A d \in SessionsOf(v) : d.last_seen = MaxOf(ReturnedStamps(v))

\* ---------------------------------------------------------------- C14
\* C14: in every reachable state there is at most one counter document, and
\* its total_views is the number of increments made so far (the heartbeats
\* that found no Session and have returned): none before the first increment,
\* 1 right after it.
C14_OneCounter ==
    /\ Cardinality(sitestat) <= 1
    /\ \A d \in sitestat : d.key = "global"
    /\ TotalViews = Cardinality({h \in Hb : Returned(h) /\ hb[h].prev = {}})
    /\ Counters = {} <=> TotalViews = 0

\* two first-time heartbeats have both incremented: still one document
C14_Witness ==
    /\ Cardinality({h \in Hb : Returned(h) /\ hb[h].prev = {}}) = 2
    /\ Cardinality(Counters) = 1

\* ---------------------------------------------------------------- C18
\* C18: a step of a heartbeat leaves the Session records of every other
\* visitor_id exactly as they were, and no step removes a Session record.
C18_OtherSessionsUntouched ==
    [][/\ \A h \in Hb : (hb'[h] # hb[h]) =>
             \A w \in Visitors \ {hb'[h].vid} :
                 {d \in session' : d.visitor_id = w} = SessionsOf(w)
       /\ \A d \in session : \E e \in session' : e.id = d.id]_vars

\* two visitors' records, written at different times
C18_Witness ==
    \E d, e \in session : d.visitor_id # e.visitor_id /\ d.last_seen # e.last_seen

\* ------------------------------------------------------- lookup history
\* The program's steps, with the history kept: the heartbeats whose lookup came
\* before (early) or after (late) the first Session upsert made by a heartbeat
\* for the same visitor_id, and by how much each heartbeat has raised
\* total_views.
NoLookups == [late |-> {}, early |-> {}, incs |-> [h \in Hb |-> 0]]

LooksUp(h) == hb[h].pc = "find" /\ hb'[h].pc = "upsert"

UpsertedFor(v) == \E k \in Hb : Upserted(k) /\ hb[k].vid = v

ObserveLookups ==
    obs' = [late  |-> obs.late \cup {h \in Hb : LooksUp(h) /\ UpsertedFor(hb[h].vid)},
            early |-> obs.early \cup {h \in Hb : LooksUp(h) /\ ~UpsertedFor(hb[h].vid)},
            incs  |-> [h \in Hb |->
                         obs.incs[h] + IF hb'[h] # hb[h]
                                       THEN TotalViews' - TotalViews ELSE 0]]

LookupInit ==
    /\ clock = 0
    /\ session = {}
    /\ sitestat = {}
    /\ hb = [h \in Hb |-> HbIdle]
    /\ st = StIdle
    /\ store0 = EmptyStore
    /\ obs = NoLookups

LookupNext ==
    \/ Tick /\ ObserveLookups /\ UNCHANGED store0
    \/ \E h \in Hb : HbReject(h) /\ ObserveLookups /\ UNCHANGED store0
    \/ \E h \in Hb : HbStart(h) /\ ObserveLookups /\ UNCHANGED store0
    \/ \E h \in Hb : HbFind(h) /\ ObserveLookups /\ UNCHANGED store0
    \/ \E h \in Hb : HbUpsert(h) /\ ObserveLookups /\ UNCHANGED store0
    \/ \E h \in Hb : HbInc(h) /\ ObserveLookups /\ UNCHANGED store0
    \/ \E h \in Hb : HbReturn(h) /\ ObserveLookups /\ UNCHANGED store0
    \/ StStart /\ ObserveLookups /\ UNCHANGED store0
    \/ StCount /\ ObserveLookups /\ UNCHANGED store0
    \/ StRead /\ ObserveLookups /\ UNCHANGED store0

LookupSpec == LookupInit /\ [][LookupNext]_vars

\* ---------------------------------------------------------------- C15
\* C15 (under LookupSpec): a heartbeat whose lookup came after a Session for
\* its visitor_id had been upserted never raises total_views; every heartbeat
\* raises it at most once; so the number of times a visitor_id has been
\* counted is at most the number of heartbeats for it whose lookup came before
\* the first upsert (the over-count is at most that number minus one).
CountedFor(v) == Cardinality({h \in Hb : hb[h].vid = v /\ obs.incs[h] >= 1})
EarlyFor(v)   == {h \in obs.early : hb[h].vid = v}

C15_LateLookupNeverCounts ==
    /\ \A h \in obs.late : obs.incs[h] = 0
    /\ \A h \in Hb : obs.incs[h] \in {0, 1}
    /\ \A v \in Visitors :
          SessionsOf(v) # {} => CountedFor(v) - 1 <= Cardinality(EarlyFor(v)) - 1

\* a heartbeat that looked up after the upsert has returned without counting
C15_Witness ==
    \E h \in obs.late :
        /\ Returned(h) /\ obs.incs[h] = 0
        /\ CountedFor(hb[h].vid) = 1
        /\ TotalViews = 1

\* -------------------------------------------------------- store failures
\* The sitestat update_one may raise (store unavailable). heartbeat catches
\* nothing, so the request ends there with a server error: the failed call has
\* written nothing, and the Session upsert made before it stays.
\* (A find_one, session update_one or count_documents that raises ends its
\* request before the call has any effect: for the store that is a request
\* that never takes its next step, which every specification here allows.)
HbIncFail(h) ==
    /\ hb[h].pc = "check"
    /\ IsFirstSeen(hb[h].prev)
    /\ hb' = [hb EXCEPT ![h] = [@ EXCEPT !.pc = "failed_inc"]]
    /\ UNCHANGED <<clock, session, sitestat, st>>

\* History: the heartbeats that entered after a heartbeat for the same
\* visitor_id had failed at its increment, and, for the stats request, how many
\* first-seen heartbeats had upserted their Session but not incremented the
\* counter (in flight before the increment, or failed at it) when it counted.
NoFaults == [later |-> {}, pending |-> 0]

ObserveFaults ==
    obs' = [later   |-> obs.later \cup
                          {k \in Hb : /\ hb[k].pc = "idle" /\ hb'[k].pc = "find"
                                      /\ \E h \in Hb : /\ hb[h].pc = "failed_inc"
                                                       /\ hb[h].vid = hb'[k].vid},
            pending |-> IF st.pc = "count" /\ st'.pc = "read"
                        THEN Cardinality({h \in Hb : /\ hb[h].pc \in {"check", "failed_inc"}
                                                     /\ hb[h].prev = {}})
                        ELSE obs.pending]

FaultInit ==
    /\ clock = 0
    /\ session = {}
    /\ sitestat = {}
    /\ hb = [h \in Hb |-> HbIdle]
    /\ st = StIdle
    /\ store0 = EmptyStore
    /\ obs = NoFaults

FaultNext ==
    \/ Tick /\ ObserveFaults /\ UNCHANGED store0
    \/ \E h \in Hb : HbReject(h) /\ ObserveFaults /\ UNCHANGED store0
    \/ \E h \in Hb : HbStart(h) /\ ObserveFaults /\ UNCHANGED store0
    \/ \E h \in Hb : HbFind(h) /\ ObserveFaults /\ UNCHANGED store0
    \/ \E h \in Hb : HbUpsert(h) /\ ObserveFaults /\ UNCHANGED store0
    \/ \E h \in Hb : HbInc(h) /\ ObserveFaults /\ UNCHANGED store0
    \/ \E h \in Hb : HbReturn(h) /\ ObserveFaults /\ UNCHANGED store0
    \/ \E h \in Hb : HbIncFail(h) /\ ObserveFaults /\ UNCHANGED store0
    \/ StStart /\ ObserveFaults /\ UNCHANGED store0
    \/ StCount /\ ObserveFaults /\ UNCHANGED store0
    \/ StRead /\ ObserveFaults /\ UNCHANGED store0

FaultSpec == FaultInit /\ [][FaultNext]_vars

\* ---------------------------------------------------------------- C16
\* C16 (as claimed, under FaultSpec): every response of get_stats has
\* active <= total.
C16_ActiveAtMostTotal ==
    (st.pc = "done" /\ st.status = "ok") => st.active <= st.total

\* C16 (amended, under FaultSpec): every response of get_stats has
\* active <= total + p, p being the number of first-seen heartbeats that had
\* upserted their Session but not incremented the counter when get_stats
\* counted the sessions.
C16_ActiveAtMostTotalPlusPending ==
    (st.pc = "done" /\ st.status = "ok") => st.active <= st.total + obs.pending

\* the count fell between a heartbeat's upsert and its increment
C16_Witness ==
    /\ st.pc = "done" /\ st.status = "ok"
    /\ obs.pending = 1
    /\ st.active = 1 /\ st.total = 0

\* ---------------------------------------------------------------- C17
FailedInc(h) == hb[h].pc = "failed_inc"

====
